---- MODULE Spec2Model ----
(***************************************************************************)
(* Model of app.py, the IPL points-table dashboard.                        *)
(*                                                                         *)
(* The script is re-executed top to bottom by Streamlit on the first page  *)
(* load and after every change of the season selectbox; one execution is   *)
(* one "render pass".  The state kept between passes is the st.cache_data  *)
(* entry of load_points_table and the selectbox value.                     *)
(*                                                                         *)
(* Numbers: win_pct is kept in hundredths of a percent (7143 = 71.43) and  *)
(* displayed values in tenths (714 = "71.4").  A season cell of 0 stands   *)
(* for a missing value (NaN in the column, None from an empty selectbox).  *)
(***************************************************************************)
EXTENDS Integers, Sequences, FiniteSets, TLC

VARIABLES
    file,       \* ipl_points_table.csv on disk
    cache,      \* the st.cache_data entry of load_points_table(DATA_FILE)
    reads,      \* number of pd.read_csv calls made so far
    view,       \* what the last render pass put on the page
    table_html, \* the html_table string of the HTML stage, as a token sequence
    html_pc     \* position of the HTML stage

vars == <<file, cache, reads, view, table_html, html_pc>>

(***************************************************************************)
(* Bounds                                                                  *)
(***************************************************************************)
MaxRows == 2        \* rows of a CSV file
MaxReads == 2       \* read_csv calls after which no further pass is explored
MaxHtmlRows == 2    \* body rows of a table given to the HTML stage

SeasonCells == 0 .. 2               \* 0 = missing value
TeamCells == {"A", "B"}
PointsCells == {12, 20}
WinPctCells == {4286, 7143}

DATA_FILE == "ipl_points_table.csv"

(***************************************************************************)
(* Generic helpers                                                         *)
(***************************************************************************)
SeqsUpTo(S, n) == UNION {[1 .. k -> S] : k \in 0 .. n}

Range(s) == {s[i] : i \in 1 .. Len(s)}

IsNaN(x) == x < 1

\* Element-wise == of pandas: a missing value equals nothing, itself included.
PdEq(a, b) == ~IsNaN(a) /\ ~IsNaN(b) /\ a = b

(***************************************************************************)
(* The CSV file                                                            *)
(***************************************************************************)
Row == [season : SeasonCells, team : TeamCells, matches_played : {14},
        wins : {10}, losses : {4}, no_result : {0},
        points : PointsCells, win_pct : WinPctCells]

AllColumns == {"season", "team", "matches_played", "wins", "losses",
               "no_result", "points", "win_pct"}

\* A header cell is the column name with optional surrounding blanks.
Plain(c) == <<c>>
Padded(c) == <<" ", c, " ">>

Headers ==
    { {Plain(c) : c \in AllColumns},
      {Plain(c) : c \in AllColumns \ {"win_pct"}} \cup {Padded("win_pct")},
      {Plain(c) : c \in AllColumns \ {"win_pct"}},
      {Plain(c) : c \in AllColumns \ {"season"}},
      {Plain(c) : c \in AllColumns \ {"season", "win_pct"}},
      {Plain(c) : c \in AllColumns \ {"team", "points"}} }

NoFile == [ok |-> FALSE, header |-> {}, rows |-> <<>>]

CsvFiles == [ok : {TRUE}, header : Headers, rows : SeqsUpTo(Row, MaxRows)]

(***************************************************************************)
(* load_points_table                                                       *)
(***************************************************************************)
RECURSIVE LStrip(_)
LStrip(h) == IF h # <<>> /\ Head(h) = " " THEN LStrip(Tail(h)) ELSE h

RECURSIVE RStrip(_)
RStrip(h) ==
    IF h # <<>> /\ h[Len(h)] = " " THEN RStrip(SubSeq(h, 1, Len(h) - 1)) ELSE h

\* c.strip() of one header cell; the stripped cells of the model are one token.
Strip(h) == RStrip(LStrip(h))[1]

NoCache == [filled |-> FALSE, columns |-> {}, rows |-> <<>>]

\* The body of load_points_table: pd.read_csv raises on an absent or
\* unparsable file, otherwise the frame with stripped column names.
ReadCsv(f) ==
    [raised |-> ~f.ok,
     columns |-> {Strip(h) : h \in f.header},
     rows |-> f.rows]

load_points_table_uncached(f, c, n) ==
    LET r == ReadCsv(f)
    IN [raised |-> r.raised,
        df |-> [columns |-> r.columns, rows |-> r.rows],
        cache |-> c,
        reads |-> n + 1]

\* @st.cache_data: a stored result is returned without running the body; a
\* call that raises stores nothing.
load_points_table(f, c, n) ==
    IF c.filled
    THEN [raised |-> FALSE,
          df |-> [columns |-> c.columns, rows |-> c.rows],
          cache |-> c,
          reads |-> n]
    ELSE LET r == ReadCsv(f)
         IN [raised |-> r.raised,
             df |-> [columns |-> r.columns, rows |-> r.rows],
             cache |-> IF r.raised THEN c
                       ELSE [filled |-> TRUE, columns |-> r.columns, rows |-> r.rows],
             reads |-> n + 1]

(***************************************************************************)
(* Season selector                                                         *)
(***************************************************************************)
\* df_all as a frame: every row carries its RangeIndex label.
Frame(rows) == [i \in 1 .. Len(rows) |-> [index |-> i - 1, data |-> rows[i]]]

Column(frame, c) == [i \in 1 .. Len(frame) |-> frame[i].data[c]]

DropNa(s) == SelectSeq(s, LAMBDA x : ~IsNaN(x))

\* Series.unique(): the distinct values in order of first appearance.
RECURSIVE Unique(_)
Unique(s) ==
    IF s = <<>> THEN <<>>
    ELSE LET init == Unique(SubSeq(s, 1, Len(s) - 1))
             last == s[Len(s)]
         IN IF last \in Range(init) THEN init ELSE Append(init, last)

\* x put into the ascending sequence s, after the elements equal to it.
RECURSIVE Insert(_, _)
Insert(s, x) ==
    IF s = <<>> THEN <<x>>
    ELSE IF x < Head(s) THEN <<x>> \o s
    ELSE <<Head(s)>> \o Insert(Tail(s), x)

RECURSIVE SortValuesDescending(_)
SortValuesDescending(s) ==
    IF s = <<>> THEN <<>>
    ELSE LET rest == SortValuesDescending(Tail(s))
         IN SelectSeq(rest, LAMBDA x : x > Head(s)) \o <<Head(s)>>
            \o SelectSeq(rest, LAMBDA x : x <= Head(s))

\* Series.sort_values(): ascending.
RECURSIVE SortValues(_)
SortValues(s) ==
    IF s = <<>> THEN <<>>
    ELSE Insert(SortValues(SubSeq(s, 1, Len(s) - 1)), s[Len(s)])

\* seasons = list(pd.Series(df_all["season"].dropna().unique()).sort_values())
Seasons(df) == SortValues(Unique(DropNa(Column(Frame(df.rows), "season"))))

\* index=len(seasons) - 1
DefaultIndex(seasons) == Len(seasons) - 1

\* st.selectbox: the option the user picked, else the option at the 0-based
\* index; with no options the index is not checked and the value is None.
Selectbox(options, index, choice) ==
    IF options = <<>> THEN 0
    ELSE IF choice \in Range(options) THEN choice
    ELSE options[index + 1]

(***************************************************************************)
(* Season slice, rank, KPIs                                                *)
(***************************************************************************)
FilterSeasonReversed(frame, season) ==
    LET kept == SelectSeq(frame, LAMBDA r : PdEq(r.data.season, season))
    IN [i \in 1 .. Len(kept) |-> kept[Len(kept) + 1 - i]]

\* df_all[df_all["season"] == season].copy()
FilterSeason(frame, season) ==
    SelectSeq(frame, LAMBDA r : PdEq(r.data.season, season))

ResetIndexSkipped(frame) == frame

\* reset_index(drop=True)
ResetIndex(frame) ==
    [i \in 1 .. Len(frame) |-> [index |-> i - 1, data |-> frame[i].data]]

\* df_season["rank"] = df_season.index + 1
AssignRank(frame) ==
    [i \in 1 .. Len(frame) |->
        [index |-> frame[i].index, rank |-> frame[i].index + 1, data |-> frame[i].data]]

SetMax(S) == CHOOSE m \in S : \A x \in S : x <= m

SeriesFirst(s) ==
    IF s = <<>> THEN [nan |-> TRUE, value |-> 0]
    ELSE [nan |-> FALSE, value |-> s[1]]

\* Series.max(): NaN (here 0 with nan set) on an empty column.
SeriesMax(s) ==
    IF s = <<>> THEN [nan |-> TRUE, value |-> 0]
    ELSE [nan |-> FALSE, value |-> SetMax(Range(s))]

\* Series.nunique()
NUnique(s) == Cardinality(Range(s))

\* Hundredths to tenths, round half to even: f"{x:.1f}" and Series.round(1).
Round1(x) ==
    LET q == x \div 10
        r == x % 10
    IN IF r > 5 \/ (r = 5 /\ q % 2 = 1) THEN q + 1 ELSE q

NoKpis == [shown |-> FALSE, teams_count |-> 0, max_points |-> 0, top_win_str |-> 0]

(***************************************************************************)
(* One render pass                                                         *)
(***************************************************************************)
NoMessage == [kind |-> "none", names |-> <<>>]

NoDf == [columns |-> {}, rows |-> <<>>]

\* Nothing on the page yet.
BlankView ==
    [outcome |-> "not_run", header |-> FALSE, selector |-> FALSE,
     options |-> <<>>, index |-> 0, season |-> 0, message |-> NoMessage, kpis |-> NoKpis,
     title |-> FALSE, table |-> FALSE, df_all |-> NoDf, df_season |-> <<>>]

\* except branch without st.stop(): the script would go on to the header.
LoadFailedViewNoStop ==
    [BlankView EXCEPT !.outcome = "stopped", !.header = TRUE,
                      !.message = [kind |-> "could_not_read",
                                   names |-> <<DATA_FILE, "same folder as app.py">>]]

\* except Exception: st.error(f"Could not read {DATA_FILE}. Make sure it is in
\* the same folder as app.py. ..."); st.stop()
LoadFailedView ==
    [BlankView EXCEPT !.outcome = "stopped",
                      !.message = [kind |-> "could_not_read",
                                   names |-> <<DATA_FILE, "same folder as app.py">>]]

\* if "season" not in df_all.columns: st.error(...); st.stop()
SeasonColumnView(df) ==
    [BlankView EXCEPT !.outcome = "stopped", !.header = TRUE, !.df_all = df,
                      !.message = [kind |-> "season_column", names |-> <<"season">>]]

RequiredWithoutWinPct ==
    {"team", "matches_played", "wins", "losses", "no_result", "points"}

\* required = {...}
Required ==
    {"team", "matches_played", "wins", "losses", "no_result", "points", "win_pct"}

\* The column names in the order sorted() gives them.
Alphabetical ==
    <<"losses", "matches_played", "no_result", "points", "season", "team",
      "win_pct", "wins">>

\* sorted(list(missing))
Sorted(names) == SelectSeq(Alphabetical, LAMBDA c : c \in names)

\* missing = required - set(df_season.columns)
Missing(df) == Required \ df.columns

\* The pass from the season selector on, for a frame that has a season column.
SeasonPass(df, choice) ==
    LET seasons == Seasons(df)
        season == Selectbox(seasons, DefaultIndex(seasons), choice)
        df_season == FilterSeason(Frame(df.rows), season)
        shown == [BlankView EXCEPT !.header = TRUE, !.selector = TRUE,
                                   !.options = seasons,
                                   !.index = DefaultIndex(seasons),
                                   !.season = season,
                                   !.df_all = df]
    IN IF Missing(df) # {}
       THEN [shown EXCEPT !.outcome = "stopped",
                          !.message = [kind |-> "missing_columns",
                                       names |-> Sorted(Missing(df))]]
       ELSE LET ranked == AssignRank(ResetIndex(df_season))
                teams_count == NUnique(Column(ranked, "team"))
                max_points == SeriesMax(Column(ranked, "points"))
                top_win == SeriesMax(Column(ranked, "win_pct"))
            IN IF max_points.nan
               THEN \* int(nan) raises ValueError; nothing catches it
                    [shown EXCEPT !.outcome = "raised"]
               ELSE [shown EXCEPT !.outcome = "completed",
                                  !.kpis = [shown |-> TRUE,
                                            teams_count |-> teams_count,
                                            max_points |-> max_points.value,
                                            top_win_str |-> Round1(top_win.value)],
                                  !.title = TRUE, !.table = TRUE,
                                  !.df_season = ranked]

\* The script from its first line to the end of the pass or to st.stop().
RenderPass(f, c, n, choice) ==
    LET loaded == load_points_table(f, c, n)
        page == IF loaded.raised THEN LoadFailedView
                ELSE IF "season" \notin loaded.df.columns
                     THEN SeasonColumnView(loaded.df)
                     ELSE SeasonPass(loaded.df, choice)
    IN [cache |-> loaded.cache, reads |-> loaded.reads, view |-> page]

(***************************************************************************)
(* HTML stage.  A string is a sequence of tokens; "<td" and "</tr>" are    *)
(* tokens of their own, so splitting on "<td" and testing for "</tr>" are  *)
(* exact as long as no cell text contains them.                            *)
(***************************************************************************)
\* quote_plus(f"{team} IPL team") for a team name without reserved characters
QuotePlus(words) ==
    [i \in 1 .. 2 * Len(words) - 1 |-> IF i % 2 = 1 THEN words[(i + 1) \div 2] ELSE "+"]

team_anchor(team) ==
    <<"<a class=\"team-link\" href=\"", "https://www.google.com/search?q=">>
    \o QuotePlus(<<team, "IPL", "team">>)
    \o <<"\" target=\"_blank\" rel=\"noopener noreferrer\">", team, "</a>">>

\* df_display = pd.DataFrame({...})
df_display(df_season) ==
    [i \in 1 .. Len(df_season) |->
        [Rank |-> df_season[i].rank,
         Team |-> team_anchor(df_season[i].data.team),
         P |-> df_season[i].data.matches_played,
         W |-> df_season[i].data.wins,
         L |-> df_season[i].data.losses,
         NR |-> df_season[i].data.no_result,
         Pts |-> df_season[i].data.points,
         WinPct |-> Round1(df_season[i].data.win_pct)]]

Number(n) == <<ToString(n)>>

OneDecimal(t) == <<ToString(t \div 10), ".", ToString(t % 10)>>

\* The cell texts of one display row, in column order.
CellTexts(r) ==
    <<Number(r.Rank), r.Team, Number(r.P), Number(r.W), Number(r.L),
      Number(r.NR), Number(r.Pts), OneDecimal(r.WinPct)>>

ColumnTitles == <<"Rank", "Team", "P", "W", "L", "NR", "Pts", "Win %">>

RECURSIVE Concat(_)
Concat(ss) == IF ss = <<>> THEN <<>> ELSE Head(ss) \o Concat(Tail(ss))

Th(title) == <<"<th>" \o title \o "</th>">>

Td(text) == <<"<td", ">">> \o text \o <<"</td>">>

HtmlRow(r) ==
    <<"<tr>">> \o Concat([k \in 1 .. 8 |-> Td(CellTexts(r)[k])]) \o <<"</tr>">>

\* DataFrame.to_html(index=False, escape=False)
to_html(display) ==
    <<"<table border=\"1\" class=\"dataframe\">", "<thead>",
      "<tr style=\"text-align: right;\">">>
    \o Concat([k \in 1 .. 8 |-> Th(ColumnTitles[k])])
    \o <<"</tr>", "</thead>", "<tbody>">>
    \o Concat([i \in 1 .. Len(display) |-> HtmlRow(display[i])])
    \o <<"</tbody>", "</table>">>

\* html_table.replace("<th>Rank</th>", ...).replace("<th>Pts</th>", ...)
ReplaceHeaders(html) ==
    [i \in 1 .. Len(html) |->
        IF html[i] = "<th>Rank</th>" THEN "<th class=\"col-rank\">Rank</th>"
        ELSE IF html[i] = "<th>Pts</th>" THEN "<th class=\"col-pts\">Pts</th>"
        ELSE html[i]]

\* table_html.split("<td")
RECURSIVE Split(_, _)
Split(s, sep) ==
    IF \A i \in 1 .. Len(s) : s[i] # sep THEN <<s>>
    ELSE LET k == CHOOSE i \in 1 .. Len(s) :
                      s[i] = sep /\ \A j \in 1 .. i - 1 : s[j] # sep
         IN <<SubSeq(s, 1, k - 1)>> \o Split(SubSeq(s, k + 1, Len(s)), sep)

\* chunk.replace("<td>", '<td' + attr + '>', 1)
ReplaceFirstTd(chunk, attr) ==
    LET hits == {i \in 1 .. Len(chunk) - 1 : chunk[i] = "<td" /\ chunk[i + 1] = ">"}
    IN IF hits = {} THEN chunk
       ELSE LET k == CHOOSE i \in hits : \A j \in hits : i <= j
            IN SubSeq(chunk, 1, k) \o <<attr>> \o SubSeq(chunk, k + 1, Len(chunk))

\* The class attribute the if/elif chain gives the td_index-th cell of a row.
TdClass(td_index) ==
    IF td_index = 1 THEN " class=\"col-rank\""
    ELSE IF td_index = 7 THEN " class=\"col-pts\""
    ELSE IF td_index \in {3, 4, 5, 6, 8} THEN " class=\"num\""
    ELSE ""

\* The for loop of add_td_classes from the k-th part on.
RECURSIVE TdLoop(_, _, _, _, _)
TdLoop(parts, k, out, in_row, td_index) ==
    IF k > Len(parts) THEN out
    ELSE IF ~in_row THEN TdLoop(parts, k + 1, Append(out, parts[k]), TRUE, td_index)
    ELSE LET chunk == <<"<td">> \o parts[k]
             start == IF "</tr>" \in Range(out[Len(out)]) THEN 0 ELSE td_index
             idx == start + 1
             tagged == IF TdClass(idx) = "" THEN chunk
                       ELSE ReplaceFirstTd(chunk, TdClass(idx))
         IN TdLoop(parts, k + 1, Append(out, tagged), TRUE, idx)

TdLoopNoReset(parts) ==
    LET Step[k \in 0 .. Len(parts)] ==
            IF k = 0 THEN <<>>
            ELSE IF k = 1 THEN <<parts[1]>>
            ELSE Append(Step[k - 1],
                        IF TdClass(k - 1) = "" THEN <<"<td">> \o parts[k]
                        ELSE ReplaceFirstTd(<<"<td">> \o parts[k], TdClass(k - 1)))
    IN Step[Len(parts)]

add_td_classes_no_reset(table_html_in) ==
    Concat(TdLoopNoReset(Split(table_html_in, "<td")))

add_td_classes(table_html_in) ==
    Concat(TdLoop(Split(table_html_in, "<td"), 1, <<>>, FALSE, 0))

(***************************************************************************)
(* Actions                                                                 *)
(***************************************************************************)
Init ==
    /\ file \in CsvFiles \cup {NoFile}
    /\ cache = NoCache
    /\ reads = 0
    /\ view = BlankView
    /\ table_html = <<>>
    /\ html_pc = "off"

\* The page is opened: the first run of the script, the selectbox untouched.
InitialRender ==
    /\ view.outcome = "not_run"
    /\ reads < MaxReads
    /\ LET p == RenderPass(file, cache, reads, 0)
       IN /\ cache' = p.cache
          /\ reads' = p.reads
          /\ view' = p.view
    /\ UNCHANGED <<file, table_html, html_pc>>

\* The user picks another season in the selectbox: the script runs again.
SeasonChange(s) ==
    /\ view.selector
    /\ s \in Range(view.options)
    /\ s # view.season
    /\ reads < MaxReads
    /\ LET p == RenderPass(file, cache, reads, s)
       IN /\ cache' = p.cache
          /\ reads' = p.reads
          /\ view' = p.view
    /\ UNCHANGED <<file, table_html, html_pc>>

\* The file is deleted while the app is running.
FileDeleted ==
    /\ file.ok
    /\ view.outcome # "not_run"
    /\ file' = NoFile
    /\ UNCHANGED <<cache, reads, view, table_html, html_pc>>

\* The file is rewritten without its last row while the app is running.
FileTruncated ==
    /\ file.ok
    /\ view.outcome # "not_run"
    /\ file.rows # <<>>
    /\ file' = [file EXCEPT !.rows = SubSeq(file.rows, 1, Len(file.rows) - 1)]
    /\ UNCHANGED <<cache, reads, view, table_html, html_pc>>

Next ==
    \/ InitialRender
    \/ \E s \in SeasonCells : SeasonChange(s)
    \/ FileDeleted
    \/ FileTruncated

Spec == Init /\ [][Next]_vars

(***************************************************************************)
(* The HTML stage of a completed pass, step by step                        *)
(***************************************************************************)
CompleteHeader == {Plain(c) : c \in AllColumns}

\* The rows the HTML stage is explored on: the cells it copies vary, the
\* ones it never looks at do not.
HtmlRows == {r \in Row : r.season >= 1 /\ r.win_pct = 7143}

InitHtml ==
    /\ file \in [ok : {TRUE}, header : {CompleteHeader},
                 rows : SeqsUpTo(HtmlRows, MaxHtmlRows)]
    /\ \E choice \in SeasonCells :
          LET p == RenderPass(file, NoCache, 0, choice)
          IN /\ p.view.outcome = "completed"
             /\ cache = p.cache
             /\ reads = p.reads
             /\ view = p.view
    /\ table_html = <<>>
    /\ html_pc = "df_display"

\* html_table = df_display.to_html(index=False, escape=False)
ToHtml ==
    /\ html_pc = "df_display"
    /\ table_html' = to_html(df_display(view.df_season))
    /\ html_pc' = "to_html"
    /\ UNCHANGED <<file, cache, reads, view>>

ReplaceTh ==
    /\ html_pc = "to_html"
    /\ table_html' = ReplaceHeaders(table_html)
    /\ html_pc' = "headers"
    /\ UNCHANGED <<file, cache, reads, view>>

\* html_table = add_td_classes(html_table)
AddTdClasses ==
    /\ html_pc = "headers"
    /\ table_html' = add_td_classes(table_html)
    /\ html_pc' = "done"
    /\ UNCHANGED <<file, cache, reads, view>>

NextHtml ==
    \/ ToHtml
    \/ ReplaceTh
    \/ AddTdClasses

SpecHtml == InitHtml /\ [][NextHtml]_vars

(***************************************************************************)
(* Vocabulary of the properties                                            *)
(***************************************************************************)
\* A pass has run and got a frame from load_points_table.
Loaded == view.outcome # "not_run" /\ view.message.kind # "could_not_read"

\* Positions in the loaded dataset of the rows of the selected season.
SeasonPositions ==
    {i \in 1 .. Len(view.df_all.rows) :
        view.df_all.rows[i].season = view.season /\ view.season >= 1}

\* The k-th smallest element of a set of numbers.
Kth(S, k) == CHOOSE x \in S : Cardinality({y \in S : y < x}) = k - 1

\* The rendered row that carries rank r.
AtRank(r) ==
    (CHOOSE i \in 1 .. Len(view.df_season) : view.df_season[i].rank = r)

RankSet == {view.df_season[i].rank : i \in 1 .. Len(view.df_season)}

\* Row b may directly follow row a in a table ordered by points, then win_pct.
InOrder(a, b) ==
    \/ b.points < a.points
    \/ b.points = a.points /\ b.win_pct <= a.win_pct

Tied(a, b) == a.points = b.points /\ a.win_pct = b.win_pct

TableOrdered ==
    \A r \in RankSet :
        (r + 1) \in RankSet => InOrder(view.df_season[AtRank(r)].data,
                                       view.df_season[AtRank(r + 1)].data)

DatasetOrdered ==
    \A k \in 1 .. Cardinality(SeasonPositions) - 1 :
        InOrder(view.df_all.rows[Kth(SeasonPositions, k)],
                view.df_all.rows[Kth(SeasonPositions, k + 1)])

(***************************************************************************)
(* C1                                                                      *)
(***************************************************************************)
\* C1 as stated: in every rendered table points is non-increasing across
\* consecutive ranks and, among equal points, win_pct is non-increasing.
C1_TableSortedByPointsThenWinPct == view.table => TableOrdered

\* C1 amended: the rendered table keeps the season's rows in the order they
\* have in the loaded dataset (rank k is the k-th row of the season), so the
\* table is ordered by points, then win_pct, exactly when the dataset is.
C1_TableKeepsDatasetOrder ==
    view.table =>
        /\ \A k \in 1 .. Cardinality(SeasonPositions) :
              /\ k \in RankSet
              /\ view.df_season[AtRank(k)].data
                    = view.df_all.rows[Kth(SeasonPositions, k)]
        /\ TableOrdered <=> DatasetOrdered

\* A table was rendered from a season whose rows are not ordered by points.
C1_Witness ==
    /\ view.table
    /\ Len(view.df_season) >= 2
    /\ ~DatasetOrdered
    /\ ~TableOrdered

(***************************************************************************)
(* C2                                                                      *)
(***************************************************************************)
\* C2: the ranks of a rendered season are exactly 1..N without repeats, N
\* being the number of rows of the loaded dataset in the selected season.
C2_RanksAreOneToN ==
    view.table =>
        /\ RankSet = 1 .. Cardinality(SeasonPositions)
        /\ Len(view.df_season) = Cardinality(SeasonPositions)
        /\ Cardinality(RankSet) = Len(view.df_season)

\* A season was ranked whose first row is not the first row of the dataset.
C2_Witness ==
    /\ view.table
    /\ Len(view.df_season) >= 1
    /\ Len(view.df_all.rows) > Len(view.df_season)
    /\ 1 \notin SeasonPositions

(***************************************************************************)
(* C3                                                                      *)
(***************************************************************************)
\* C3 as stated: with at least one row, max_points is the points value of
\* the row of rank 1.
C3_MaxPointsIsRankOnePoints ==
    (view.table /\ Len(view.df_season) >= 1) =>
        view.kpis.max_points = view.df_season[AtRank(1)].data.points

\* C3 amended: with at least one row, max_points is the greatest points
\* value among the rows of the season, whichever rank holds it.
C3_MaxPointsIsGreatestPoints ==
    (view.table /\ Len(view.df_season) >= 1) =>
        /\ \E i \in 1 .. Len(view.df_season) :
              view.kpis.max_points = view.df_season[i].data.points
        /\ \A i \in 1 .. Len(view.df_season) :
              view.df_season[i].data.points <= view.kpis.max_points

\* The greatest points value is held by a row below rank 1.
C3_Witness ==
    /\ view.table
    /\ Len(view.df_season) >= 2
    /\ view.df_season[AtRank(1)].data.points < view.kpis.max_points

(***************************************************************************)
(* C4                                                                      *)
(***************************************************************************)
\* The required columns of C4 that the loaded dataset lacks.
AbsentColumns == AllColumns \ view.df_all.columns

\* The pass halted on a message and rendered neither summary nor table.
HaltedWithoutTable ==
    /\ view.outcome = "stopped"
    /\ view.message.kind \in {"season_column", "missing_columns"}
    /\ ~view.kpis.shown
    /\ ~view.title
    /\ ~view.table

\* C4 as stated: when any of the eight columns is absent, the pass halts on
\* a message that lists the absent columns and renders neither summary nor
\* table, whatever season is selected.
C4_MessageListsAllAbsentColumns ==
    (Loaded /\ AbsentColumns # {}) =>
        /\ HaltedWithoutTable
        /\ view.message.names = Sorted(AbsentColumns)

\* C4 amended: when any of the eight columns is absent, the pass halts and
\* renders neither summary nor table, whatever season is selected; the
\* message names only "season" when the season column is absent, and lists
\* all the absent columns otherwise.
C4_HaltsNamingSeasonOrAbsentColumns ==
    (Loaded /\ AbsentColumns # {}) =>
        /\ HaltedWithoutTable
        /\ view.message.names =
              IF "season" \in AbsentColumns THEN <<"season">>
              ELSE Sorted(AbsentColumns)

\* The pass after a season change halted on the absent win_pct column.
C4_Witness ==
    /\ Loaded
    /\ AbsentColumns = {"win_pct"}
    /\ view.selector
    /\ Len(view.options) = 2
    /\ view.season # view.options[view.index + 1]
    /\ view.message.names = <<"win_pct">>

(***************************************************************************)
(* C5                                                                      *)
(***************************************************************************)
\* C5: when no row of a dataset with all columns has the selected season,
\* the pass completes with an empty table and the summary 0, 0, 0.0.
C5_EmptySliceGivesZeroSummary ==
    (Loaded /\ AbsentColumns = {} /\ SeasonPositions = {}) =>
        /\ view.outcome = "completed"
        /\ view.table
        /\ view.df_season = <<>>
        /\ view.kpis = [shown |-> TRUE, teams_count |-> 0, max_points |-> 0,
                        top_win_str |-> 0]

(***************************************************************************)
(* C6                                                                      *)
(***************************************************************************)
\* C6: a pass in which reading the file fails shows the message naming the
\* file and its location and stops before the header: no header, selector,
\* summary or table is rendered.
C6_LoadFailureHaltsBeforeHeader ==
    [][(~file.ok /\ ~cache.filled /\ reads' # reads) =>
          /\ view'.outcome = "stopped"
          /\ view'.message.kind = "could_not_read"
          /\ DATA_FILE \in Range(view'.message.names)
          /\ "same folder as app.py" \in Range(view'.message.names)
          /\ ~view'.header
          /\ ~view'.selector
          /\ ~view'.kpis.shown
          /\ ~view'.title
          /\ ~view'.table]_vars

\* A pass has run against an absent file.
C6_Witness ==
    /\ ~file.ok
    /\ ~cache.filled
    /\ reads = 1
    /\ view.outcome # "not_run"

(***************************************************************************)
(* C7                                                                      *)
(***************************************************************************)
\* The season values of the loaded dataset, missing values left out.
SeasonsPresent ==
    {view.df_all.rows[i].season : i \in 1 .. Len(view.df_all.rows)} \ {0}

OptionsAreTheSeasonsOnce ==
    /\ Range(view.options) = SeasonsPresent
    /\ Len(view.options) = Cardinality(SeasonsPresent)

DefaultIsGreatest ==
    view.options # <<>> =>
        /\ view.index + 1 \in 1 .. Len(view.options)
        /\ \A s \in SeasonsPresent : s <= view.options[view.index + 1]

\* C7 as stated: the selector offers the distinct seasons, each once, in
\* descending order, and its default is the greatest season.
C7_OptionsDescending ==
    view.selector =>
        /\ OptionsAreTheSeasonsOnce
        /\ \A i \in 1 .. Len(view.options) - 1 : view.options[i] > view.options[i + 1]
        /\ DefaultIsGreatest

\* C7 amended: the selector offers the distinct seasons, each once, in
\* ascending order, and its default is the greatest season, the last option.
C7_OptionsAscendingDefaultLast ==
    view.selector =>
        /\ OptionsAreTheSeasonsOnce
        /\ \A i \in 1 .. Len(view.options) - 1 : view.options[i] < view.options[i + 1]
        /\ DefaultIsGreatest
        /\ view.index = Len(view.options) - 1

\* A selector with two seasons, from a dataset that names the later first.
C7_Witness ==
    /\ view.selector
    /\ Len(view.options) = 2
    /\ Len(view.df_all.rows) >= 2
    /\ view.df_all.rows[1].season > view.df_all.rows[2].season
    /\ view.df_all.rows[2].season >= 1

(***************************************************************************)
(* C8                                                                      *)
(***************************************************************************)
\* C8: of two rows of the season tied on points and win_pct, the one that
\* comes first in the dataset gets the smaller rank, and the two get
\* different ranks.
C8_TiedRowsKeepInputOrder ==
    view.table =>
        \A i, j \in SeasonPositions :
            (i < j /\ Tied(view.df_all.rows[i], view.df_all.rows[j])) =>
                \E ri, rj \in RankSet :
                    /\ ri < rj
                    /\ view.df_season[AtRank(ri)].data = view.df_all.rows[i]
                    /\ view.df_season[AtRank(rj)].data = view.df_all.rows[j]

\* Two tied rows of different teams were ranked.
C8_Witness ==
    /\ view.table
    /\ \E i, j \in SeasonPositions :
          /\ i < j
          /\ Tied(view.df_all.rows[i], view.df_all.rows[j])
          /\ view.df_all.rows[i].team # view.df_all.rows[j].team

(***************************************************************************)
(* C9                                                                      *)
(***************************************************************************)
\* C9: over the initial render and any number of season changes the file is
\* read at most once, a stored dataset is never replaced or altered, and
\* every pass that got a dataset worked on the stored one.
C9_FileReadOnceDatasetFixed ==
    /\ [](reads <= 1)
    /\ [][cache.filled => cache' = cache]_vars
    /\ [](Loaded => (cache.filled /\ view.df_all.columns = cache.columns
                                  /\ view.df_all.rows = cache.rows))

\* A season change was rendered after the file had been deleted.
C9_Witness ==
    /\ ~file.ok
    /\ reads = 1
    /\ view.outcome = "completed"
    /\ view.season # view.options[view.index + 1]

(***************************************************************************)
(* C10                                                                     *)
(***************************************************************************)
\* The class each of the eight cells of a body row is to carry ("" = none).
ExpectedClass ==
    <<"col-rank", "", "num", "num", "num", "num", "col-pts", "num">>

ExpectedTd(k, text) ==
    IF ExpectedClass[k] = "" THEN <<"<td", ">">> \o text \o <<"</td>">>
    ELSE <<"<td", " class=\"" \o ExpectedClass[k] \o "\"", ">">> \o text \o <<"</td>">>

ExpectedBody(display) ==
    Concat([i \in 1 .. Len(display) |->
              <<"<tr>">>
              \o Concat([k \in 1 .. 8 |-> ExpectedTd(k, CellTexts(display[i])[k])])
              \o <<"</tr>">>])

\* An HTML string without the class attributes of its <td tags.
WithoutTdClasses(html) ==
    LET pairs == [i \in 1 .. Len(html) |->
                    [prev |-> IF i = 1 THEN "" ELSE html[i - 1], tok |-> html[i]]]
        kept == SelectSeq(pairs, LAMBDA p : ~(p.prev = "<td" /\ p.tok # ">"))
    IN [i \in 1 .. Len(kept) |-> kept[i].tok]

\* The body rows of an HTML string: the tokens between <tbody> and </tbody>.
BodyOf(html) ==
    LET open == CHOOSE i \in 1 .. Len(html) : html[i] = "<tbody>"
        close == CHOOSE i \in 1 .. Len(html) : html[i] = "</tbody>"
    IN SubSeq(html, open + 1, close - 1)

\* C10: after add_td_classes every body row has col-rank on its 1st cell,
\* col-pts on its 7th, num on cells 3, 4, 5, 6 and 8, nothing on the 2nd, and
\* the HTML is otherwise the one the function was given.
C10_CellsTaggedByPosition ==
    html_pc = "done" =>
        /\ BodyOf(table_html) = ExpectedBody(df_display(view.df_season))
        /\ WithoutTdClasses(table_html)
              = ReplaceHeaders(to_html(df_display(view.df_season)))

\* add_td_classes has run on a table of at least two body rows.
C10_Witness ==
    /\ html_pc = "done"
    /\ Len(view.df_season) >= 2
    /\ Len(table_html) > 100

====
